---- MODULE Spec2Model ----
(***************************************************************************)
(* Model of the native Whisper engine of src-tauri/src/whisper.rs          *)
(* (mod native): the two global mutex-protected cells WHISPER_CTX and      *)
(* MODEL_PATH, the model file on disk, and the commands that act on them,  *)
(* called concurrently from a pool of worker threads.                      *)
(*                                                                         *)
(* Every command is split into one step per access to shared state (a      *)
(* file-system call, a lock acquisition, a write under a lock, a call into *)
(* the whisper library).  Results of calls into the environment (mkdir,    *)
(* HTTP, file I/O, the whisper library) are inputs drawn with \E.          *)
(***************************************************************************)
EXTENDS Integers, Sequences, FiniteSets

\* Number of worker threads that may run commands concurrently.
NumThreads == 2

Threads == 1..NumThreads

\* "No thread" value for a lock owner.
NoThread == 0

\* Option::None for WHISPER_CTX (a context is identified by 1 or 2).
None == 0

VARIABLES
    WHISPER_CTX,   \* whisper.rs:12  the Option<WhisperContext> inside the mutex
    MODEL_PATH,    \* whisper.rs:13  the Option<PathBuf> inside the mutex: "none" | "path"
    ctxOwner,      \* thread holding the WHISPER_CTX mutex, or NoThread
    ctxPoisoned,   \* the WHISPER_CTX mutex's poison flag
    pathOwner,     \* thread holding the MODEL_PATH mutex, or NoThread
    pathPoisoned,  \* the MODEL_PATH mutex's poison flag
    file,          \* models_dir/ggml-base.en.bin: "absent" | "empty" | "partial" | "complete"
    dirExists,     \* whether models_dir has been created
    op,            \* op[t]: the command thread t is running, or "none"
    pc,            \* pc[t]: the position of thread t inside its command
    held,          \* held[t]: the context reference a transcription obtained (as_ref)
    log,           \* log[t]: the side effects the running call of t has performed
    ret,           \* the return made by the last step, or NoRet
    wav,           \* the WAV file a transcribe_audio_file call converts (whisper.rs:171-174)
    stage,         \* how far that conversion has come
    norm,          \* samples after the conversion to f32 (whisper.rs:177-187)
    resampled,     \* samples after the resampling (whisper.rs:190-203)
    mono,          \* samples after the channel folding (whisper.rs:206-212)
    abandoned      \* history: some download has returned an error after
                   \* File::create (whisper.rs:73-81), leaving its file behind

vars == <<WHISPER_CTX, MODEL_PATH, ctxOwner, ctxPoisoned, pathOwner, pathPoisoned,
          file, dirExists, op, pc, held, log, ret, wav, stage, norm, resampled, mono,
          abandoned>>

engine == <<WHISPER_CTX, MODEL_PATH, ctxOwner, ctxPoisoned, pathOwner, pathPoisoned>>
disk == <<file, dirExists>>
audio == <<wav, stage, norm, resampled, mono>>

\* No WAV file under conversion.
NoWav == [container |-> "none", rate |-> 16000, bits |-> 16, channels |-> 1,
          data |-> <<>>]

NoRet == [t |-> NoThread, op |-> "none", val |-> "none", log |-> <<>>]

Ops == {"download_whisper_model", "load_whisper_model", "is_whisper_loaded",
        "transcribe_audio_native", "transcribe_audio_file", "unload_whisper_model",
        "is_whisper_model_downloaded", "get_whisper_model_path"}

\* The commands whose first statement is get_models_dir().
DirOps == {"download_whisper_model", "load_whisper_model",
           "is_whisper_model_downloaded", "get_whisper_model_path"}

TranscribeOps == {"transcribe_audio_native", "transcribe_audio_file"}

\* Outcomes of the calls into the whisper library made under the lock.
StateOutcomes == {"ok", "err"}
InferOutcomes == {"ok", "err", "panic"}
SegmentOutcomes == {"ok", "err"}

\* Positions inside the critical section of the WHISPER_CTX mutex.
CtxSection == {"ld_set", "ld_plock", "ld_pset", "tr_ctx", "tr_state", "tr_full",
               "tr_segs", "un_clear", "un_plock", "un_pclear"}

\* Positions of a transcription that holds a reference to the context.
Inferring == {"tr_state", "tr_full", "tr_segs"}

InCtxSection(t) == pc[t] \in CtxSection

\* model_path.exists()
Exists == file # "absent"

----------------------------------------------------------------------------
(* Control-flow helpers *)

Goto(t, p) ==
    /\ pc' = [pc EXCEPT ![t] = p]
    /\ op' = op
    /\ ret' = NoRet
    /\ UNCHANGED <<audio, abandoned>>

\* The command of t returns v to its caller; its locals go out of scope.
Return(t, v) ==
    /\ pc' = [pc EXCEPT ![t] = "idle"]
    /\ op' = [op EXCEPT ![t] = "none"]
    /\ ret' = [t |-> t, op |-> op[t], val |-> v, log |-> log[t]]
    /\ log' = [log EXCEPT ![t] = <<>>]
    /\ held' = [held EXCEPT ![t] = None]
    /\ abandoned' = (\/ abandoned
                     \/ /\ op[t] = "download_whisper_model"
                        /\ v = "DownloadError"
                        /\ \E i \in 1..Len(log[t]) : log[t][i] = "create")
    /\ UNCHANGED audio

Effect(t, e) == log' = [log EXCEPT ![t] = Append(log[t], e)]

Entry(o) ==
    CASE o \in DirOps -> "dir"
      [] o = "transcribe_audio_native" -> "tr_lock"
      [] o = "transcribe_audio_file" -> "tf_open"
      [] o = "unload_whisper_model" -> "un_lock"
      [] o = "is_whisper_loaded" -> "il_lock"

AfterDir(o) ==
    CASE o = "download_whisper_model" -> "dl_exists"
      [] o = "load_whisper_model" -> "ld_exists"
      [] o = "is_whisper_model_downloaded" -> "md_exists"
      [] o = "get_whisper_model_path" -> "gp_exists"

\* The command dispatcher starts command o on the idle worker t.
Call(t, o) ==
    /\ pc[t] = "idle"
    /\ pc' = [pc EXCEPT ![t] = Entry(o)]
    /\ op' = [op EXCEPT ![t] = o]
    /\ ret' = NoRet
    /\ UNCHANGED <<engine, disk, held, log, audio, abandoned>>

----------------------------------------------------------------------------
(* get_models_dir: create_dir_all succeeds on an existing directory and may
   fail (mkOk = FALSE) when it has to create it. *)
get_models_dir(t, mkOk) ==
    /\ pc[t] = "dir"
    /\ IF dirExists \/ mkOk
       THEN /\ dirExists' = TRUE
            /\ Goto(t, AfterDir(op[t]))
            /\ UNCHANGED <<held, log>>
       ELSE /\ dirExists' = dirExists
            /\ Return(t, IF op[t] = "is_whisper_model_downloaded"
                         THEN "false" ELSE "DirError")
    /\ UNCHANGED <<engine, file>>

\* Variant: only a completely written file counts as downloaded.
is_whisper_model_downloaded_complete(t) ==
    /\ pc[t] = "md_exists"
    /\ Return(t, IF file = "complete" THEN "true" ELSE "false")
    /\ UNCHANGED <<engine, disk>>

is_whisper_model_downloaded(t) ==
    /\ pc[t] = "md_exists"
    /\ Return(t, IF Exists THEN "true" ELSE "false")
    /\ UNCHANGED <<engine, disk>>

get_whisper_model_path(t) ==
    /\ pc[t] = "gp_exists"
    /\ Return(t, IF Exists THEN "OkPath" ELSE "NotDownloaded")
    /\ UNCHANGED <<engine, disk>>

----------------------------------------------------------------------------
(* download_whisper_model *)

\* Variant: the exists() check is missing.
download_always_fetch(t) ==
    /\ pc[t] = "dl_exists"
    /\ Goto(t, "dl_start")
    /\ UNCHANGED <<engine, disk, held, log>>

download_exists(t) ==
    /\ pc[t] = "dl_exists"
    /\ IF Exists
       THEN Return(t, "OkPath")
       ELSE Goto(t, "dl_start") /\ UNCHANGED <<held, log>>
    /\ UNCHANGED <<engine, disk>>

download_emit_start(t) ==
    /\ pc[t] = "dl_start"
    /\ Effect(t, "start")
    /\ Goto(t, "dl_send")
    /\ UNCHANGED <<engine, disk, held>>

\* client.get(url).send().await: one request, answered (ok) or not.  The
\* entry "request" is the answered request.
download_send(t, ok) ==
    /\ pc[t] = "dl_send"
    /\ IF ok
       THEN Effect(t, "request") /\ Goto(t, "dl_create") /\ held' = held
       ELSE Return(t, "DownloadError")
    /\ UNCHANGED <<engine, disk>>

\* File::create creates the file, or truncates the one that is there.
download_create(t, ok) ==
    /\ pc[t] = "dl_create"
    /\ IF ok
       THEN /\ file' = "empty"
            /\ Effect(t, "create")
            /\ Goto(t, "dl_body")
            /\ held' = held
       ELSE /\ file' = file
            /\ Return(t, "DownloadError")
    /\ UNCHANGED <<engine, dirExists>>

\* Variant: a failed body read removes the file it created.
download_body_cleanup(t, ok) ==
    /\ pc[t] = "dl_body"
    /\ IF ok
       THEN file' = file /\ Goto(t, "dl_write") /\ UNCHANGED <<held, log>>
       ELSE file' = "absent" /\ Return(t, "DownloadError")
    /\ UNCHANGED <<engine, dirExists>>

\* response.bytes().await
download_body(t, ok) ==
    /\ pc[t] = "dl_body"
    /\ IF ok
       THEN Goto(t, "dl_write") /\ UNCHANGED <<held, log>>
       ELSE Return(t, "DownloadError")
    /\ UNCHANGED <<engine, disk>>

\* Variant: the result of write_all is ignored.
download_write_unchecked(t, ok) ==
    /\ pc[t] = "dl_write"
    /\ IF ok
       THEN file' = "complete" /\ Effect(t, "write")
       ELSE file' = "partial" /\ log' = log
    /\ Goto(t, "dl_progress")
    /\ UNCHANGED <<engine, dirExists, held>>

\* file.write_all(&bytes): the whole body, or an error part of the way.
download_write(t, ok) ==
    /\ pc[t] = "dl_write"
    /\ IF ok
       THEN /\ file' = "complete"
            /\ Effect(t, "write")
            /\ Goto(t, "dl_progress")
            /\ held' = held
       ELSE /\ file' = "partial"
            /\ Return(t, "DownloadError")
    /\ UNCHANGED <<engine, dirExists>>

download_emit_progress(t) ==
    /\ pc[t] = "dl_progress"
    /\ Effect(t, "progress")
    /\ Goto(t, "dl_complete")
    /\ UNCHANGED <<engine, disk, held>>

download_emit_complete(t) ==
    /\ pc[t] = "dl_complete"
    /\ Effect(t, "complete")
    /\ Goto(t, "dl_ret")
    /\ UNCHANGED <<engine, disk, held>>

\* Variant: a successful download records its path in MODEL_PATH.
download_return_store(t) ==
    /\ pc[t] = "dl_ret"
    /\ pathOwner = NoThread
    /\ MODEL_PATH' = "path"
    /\ Return(t, "OkPath")
    /\ UNCHANGED <<WHISPER_CTX, ctxOwner, ctxPoisoned, pathOwner, pathPoisoned, disk>>

download_return(t) ==
    /\ pc[t] = "dl_ret"
    /\ Return(t, "OkPath")
    /\ UNCHANGED <<engine, disk>>

download_whisper_model(t) ==
    \/ download_exists(t)
    \/ download_emit_start(t)
    \/ \E ok \in BOOLEAN : download_send(t, ok)
    \/ \E ok \in BOOLEAN : download_create(t, ok)
    \/ \E ok \in BOOLEAN : download_body(t, ok)
    \/ \E ok \in BOOLEAN : download_write(t, ok)
    \/ download_emit_progress(t)
    \/ download_emit_complete(t)
    \/ download_return(t)

----------------------------------------------------------------------------
(* load_whisper_model *)

\* A context distinct from the one it replaces.
NewContext == IF WHISPER_CTX = 1 THEN 2 ELSE 1

load_exists(t) ==
    /\ pc[t] = "ld_exists"
    /\ IF Exists
       THEN Goto(t, "ld_parse") /\ UNCHANGED <<held, log>>
       ELSE Return(t, "NotDownloaded")
    /\ UNCHANGED <<engine, disk>>

\* Variant: the parse result is stored as it comes (`.ok()`), so a failed
\* parse stores None.
load_parse_clobber(t, parsed) ==
    /\ pc[t] = "ld_parse"
    /\ IF file = "complete" /\ parsed
       THEN WHISPER_CTX' = WHISPER_CTX /\ Goto(t, "ld_lock") /\ UNCHANGED <<held, log>>
       ELSE WHISPER_CTX' = None /\ Return(t, "ModelLoadError")
    /\ UNCHANGED <<MODEL_PATH, ctxOwner, ctxPoisoned, pathOwner, pathPoisoned, disk>>

\* WhisperContext::new_with_params: fails on a file that is not a whole
\* model, and may fail on a whole one (parsed = FALSE).
load_parse(t, parsed) ==
    /\ pc[t] = "ld_parse"
    /\ IF file = "complete" /\ parsed
       THEN Goto(t, "ld_lock") /\ UNCHANGED <<held, log>>
       ELSE Return(t, "ModelLoadError")
    /\ UNCHANGED <<engine, disk>>

\* WHISPER_CTX.lock(): waits for the mutex; on a poisoned mutex the guard
\* inside the error is dropped at once by map_err.
load_lock(t) ==
    /\ pc[t] = "ld_lock"
    /\ ctxOwner = NoThread
    /\ IF ctxPoisoned
       THEN ctxOwner' = ctxOwner /\ Return(t, "LockPoisoned")
       ELSE ctxOwner' = t /\ Goto(t, "ld_set") /\ UNCHANGED <<held, log>>
    /\ UNCHANGED <<WHISPER_CTX, MODEL_PATH, ctxPoisoned, pathOwner, pathPoisoned, disk>>

\* Variant: the WHISPER_CTX guard is dropped before MODEL_PATH is locked.
load_set_ctx_unlocked(t) ==
    /\ pc[t] = "ld_set"
    /\ WHISPER_CTX' = NewContext
    /\ ctxOwner' = NoThread
    /\ Goto(t, "ld_plock")
    /\ UNCHANGED <<MODEL_PATH, ctxPoisoned, pathOwner, pathPoisoned, disk, held, log>>

load_set_ctx(t) ==
    /\ pc[t] = "ld_set"
    /\ WHISPER_CTX' = NewContext
    /\ Goto(t, "ld_plock")
    /\ UNCHANGED <<MODEL_PATH, ctxOwner, ctxPoisoned, pathOwner, pathPoisoned, disk, held, log>>

\* MODEL_PATH.lock(), with the WHISPER_CTX guard still alive; an early
\* return drops that guard.
load_lock_path(t) ==
    /\ pc[t] = "ld_plock"
    /\ pathOwner = NoThread
    /\ IF pathPoisoned
       THEN /\ ctxOwner' = NoThread
            /\ pathOwner' = pathOwner
            /\ Return(t, "LockPoisoned")
       ELSE /\ pathOwner' = t
            /\ ctxOwner' = ctxOwner
            /\ Goto(t, "ld_pset")
            /\ UNCHANGED <<held, log>>
    /\ UNCHANGED <<WHISPER_CTX, MODEL_PATH, ctxPoisoned, pathPoisoned, disk>>

\* *stored_path = Some(model_path); Ok(()): both guards are dropped.
load_set_path(t) ==
    /\ pc[t] = "ld_pset"
    /\ MODEL_PATH' = "path"
    /\ pathOwner' = NoThread
    /\ ctxOwner' = NoThread
    /\ Return(t, "Ok")
    /\ UNCHANGED <<WHISPER_CTX, ctxPoisoned, pathPoisoned, disk>>

load_whisper_model(t) ==
    \/ load_exists(t)
    \/ \E parsed \in BOOLEAN : load_parse(t, parsed)
    \/ load_lock(t)
    \/ load_set_ctx(t)
    \/ load_lock_path(t)
    \/ load_set_path(t)

----------------------------------------------------------------------------
(* is_whisper_loaded: lock().map(|ctx| ctx.is_some()).unwrap_or(false) *)

is_whisper_loaded(t) ==
    /\ pc[t] = "il_lock"
    /\ ctxOwner = NoThread
    /\ Return(t, IF ctxPoisoned THEN "false"
                 ELSE IF WHISPER_CTX # None THEN "true" ELSE "false")
    /\ UNCHANGED <<engine, disk>>

----------------------------------------------------------------------------
(* transcribe_audio_native *)

\* Variant: the handle is taken without waiting for the mutex.
transcribe_lock_nowait(t) ==
    /\ pc[t] = "tr_lock"
    /\ IF ctxPoisoned
       THEN ctxOwner' = ctxOwner /\ Return(t, "LockPoisoned")
       ELSE ctxOwner' = t /\ Goto(t, "tr_ctx") /\ UNCHANGED <<held, log>>
    /\ UNCHANGED <<WHISPER_CTX, MODEL_PATH, ctxPoisoned, pathOwner, pathPoisoned, disk>>

\* WHISPER_CTX.lock()
transcribe_lock(t) ==
    /\ pc[t] = "tr_lock"
    /\ ctxOwner = NoThread
    /\ IF ctxPoisoned
       THEN ctxOwner' = ctxOwner /\ Return(t, "LockPoisoned")
       ELSE ctxOwner' = t /\ Goto(t, "tr_ctx") /\ UNCHANGED <<held, log>>
    /\ UNCHANGED <<WHISPER_CTX, MODEL_PATH, ctxPoisoned, pathOwner, pathPoisoned, disk>>

\* Variant: the Option is used without the ok_or check.
transcribe_as_ref_unchecked(t) ==
    /\ pc[t] = "tr_ctx"
    /\ held' = [held EXCEPT ![t] = WHISPER_CTX]
    /\ Goto(t, "tr_state")
    /\ UNCHANGED <<engine, disk, log>>

\* whisper_ctx.as_ref().ok_or(..)?
transcribe_as_ref(t) ==
    /\ pc[t] = "tr_ctx"
    /\ IF WHISPER_CTX = None
       THEN ctxOwner' = NoThread /\ Return(t, "ModelNotLoaded")
       ELSE /\ ctxOwner' = ctxOwner
            /\ held' = [held EXCEPT ![t] = WHISPER_CTX]
            /\ Goto(t, "tr_state")
            /\ log' = log
    /\ UNCHANGED <<WHISPER_CTX, MODEL_PATH, ctxPoisoned, pathOwner, pathPoisoned, disk>>

\* ctx.create_state()
transcribe_create_state(t, o) ==
    /\ pc[t] = "tr_state"
    /\ IF o = "ok"
       THEN ctxOwner' = ctxOwner /\ Goto(t, "tr_full") /\ UNCHANGED <<held, log>>
       ELSE ctxOwner' = NoThread /\ Return(t, "InferenceError")
    /\ UNCHANGED <<WHISPER_CTX, MODEL_PATH, ctxPoisoned, pathOwner, pathPoisoned, disk>>

\* state.full(params, &audio_data): the inference.  A panic unwinds through
\* the guard, which poisons the mutex as it unlocks it.
transcribe_full(t, o) ==
    /\ pc[t] = "tr_full"
    /\ CASE o = "ok" ->
              /\ Effect(t, "inference")
              /\ Goto(t, "tr_segs")
              /\ UNCHANGED <<ctxOwner, ctxPoisoned, held>>
         [] o = "err" ->
              /\ ctxOwner' = NoThread
              /\ ctxPoisoned' = ctxPoisoned
              /\ Return(t, "InferenceError")
         [] o = "panic" ->
              /\ ctxOwner' = NoThread
              /\ ctxPoisoned' = TRUE
              /\ Return(t, "Panic")
    /\ UNCHANGED <<WHISPER_CTX, MODEL_PATH, pathOwner, pathPoisoned, disk>>

\* Variant: the guard is leaked (mem::forget), so the mutex stays locked.
transcribe_segments_leak(t, o) ==
    /\ pc[t] = "tr_segs"
    /\ ctxOwner' = ctxOwner
    /\ Return(t, IF o = "ok" THEN "Ok" ELSE "InferenceError")
    /\ UNCHANGED <<WHISPER_CTX, MODEL_PATH, ctxPoisoned, pathOwner, pathPoisoned, disk>>

\* state.full_n_segments(), the segment loop, Ok(result.trim())
transcribe_segments(t, o) ==
    /\ pc[t] = "tr_segs"
    /\ ctxOwner' = NoThread
    /\ Return(t, IF o = "ok" THEN "Ok" ELSE "InferenceError")
    /\ UNCHANGED <<WHISPER_CTX, MODEL_PATH, ctxPoisoned, pathOwner, pathPoisoned, disk>>

transcribe_audio_native(t, so, io, go) ==
    \/ transcribe_lock(t)
    \/ transcribe_as_ref(t)
    \/ transcribe_create_state(t, so)
    \/ transcribe_full(t, io)
    \/ transcribe_segments(t, go)

\* transcribe_audio_file: WavReader::open, then the conversion of the
\* samples (local to the call), then transcribe_audio_native(samples).
transcribe_audio_file(t, opened) ==
    /\ pc[t] = "tf_open"
    /\ IF opened
       THEN Goto(t, "tr_lock") /\ UNCHANGED <<held, log>>
       ELSE Return(t, "AudioDecodeError")
    /\ UNCHANGED <<engine, disk>>

----------------------------------------------------------------------------
(* unload_whisper_model *)

unload_lock(t) ==
    /\ pc[t] = "un_lock"
    /\ ctxOwner = NoThread
    /\ IF ctxPoisoned
       THEN ctxOwner' = ctxOwner /\ Return(t, "LockPoisoned")
       ELSE ctxOwner' = t /\ Goto(t, "un_clear") /\ UNCHANGED <<held, log>>
    /\ UNCHANGED <<WHISPER_CTX, MODEL_PATH, ctxPoisoned, pathOwner, pathPoisoned, disk>>

unload_clear_ctx(t) ==
    /\ pc[t] = "un_clear"
    /\ WHISPER_CTX' = None
    /\ Goto(t, "un_plock")
    /\ UNCHANGED <<MODEL_PATH, ctxOwner, ctxPoisoned, pathOwner, pathPoisoned, disk, held, log>>

unload_lock_path(t) ==
    /\ pc[t] = "un_plock"
    /\ pathOwner = NoThread
    /\ IF pathPoisoned
       THEN /\ ctxOwner' = NoThread
            /\ pathOwner' = pathOwner
            /\ Return(t, "LockPoisoned")
       ELSE /\ pathOwner' = t
            /\ ctxOwner' = ctxOwner
            /\ Goto(t, "un_pclear")
            /\ UNCHANGED <<held, log>>
    /\ UNCHANGED <<WHISPER_CTX, MODEL_PATH, ctxPoisoned, pathPoisoned, disk>>

\* Variant: the stored path is left in place.
unload_keep_path(t) ==
    /\ pc[t] = "un_pclear"
    /\ MODEL_PATH' = MODEL_PATH
    /\ pathOwner' = NoThread
    /\ ctxOwner' = NoThread
    /\ Return(t, "Ok")
    /\ UNCHANGED <<WHISPER_CTX, ctxPoisoned, pathPoisoned, disk>>

unload_clear_path(t) ==
    /\ pc[t] = "un_pclear"
    /\ MODEL_PATH' = "none"
    /\ pathOwner' = NoThread
    /\ ctxOwner' = NoThread
    /\ Return(t, "Ok")
    /\ UNCHANGED <<WHISPER_CTX, ctxPoisoned, pathPoisoned, disk>>

\* Variant: MODEL_PATH is locked first, WHISPER_CTX second.
unload_path_first(t) ==
    \/ /\ pc[t] = "un_lock"
       /\ pathOwner = NoThread
       /\ pathOwner' = t
       /\ Goto(t, "un_plock")
       /\ UNCHANGED <<WHISPER_CTX, MODEL_PATH, ctxOwner, ctxPoisoned, pathPoisoned,
                      disk, held, log>>
    \/ /\ pc[t] = "un_plock"
       /\ ctxOwner = NoThread
       /\ IF ctxPoisoned
          THEN /\ pathOwner' = NoThread
               /\ UNCHANGED <<WHISPER_CTX, ctxOwner>>
               /\ Return(t, "LockPoisoned")
          ELSE /\ ctxOwner' = t
               /\ WHISPER_CTX' = None
               /\ pathOwner' = pathOwner
               /\ Goto(t, "un_pclear")
               /\ UNCHANGED <<held, log>>
       /\ UNCHANGED <<MODEL_PATH, ctxPoisoned, pathPoisoned, disk>>
    \/ unload_clear_path(t)

unload_whisper_model(t) ==
    \/ unload_lock(t)
    \/ unload_clear_ctx(t)
    \/ unload_lock_path(t)
    \/ unload_clear_path(t)

----------------------------------------------------------------------------
(* The system: statics as initialised at whisper.rs:12-13, nothing on disk,
   every worker idle. *)

Init ==
    /\ WHISPER_CTX = None
    /\ MODEL_PATH = "none"
    /\ ctxOwner = NoThread
    /\ ctxPoisoned = FALSE
    /\ pathOwner = NoThread
    /\ pathPoisoned = FALSE
    /\ file = "absent"
    /\ dirExists = FALSE
    /\ op = [t \in Threads |-> "none"]
    /\ pc = [t \in Threads |-> "idle"]
    /\ held = [t \in Threads |-> None]
    /\ log = [t \in Threads |-> <<>>]
    /\ ret = NoRet
    /\ wav = NoWav
    /\ stage = "none"
    /\ norm = <<>>
    /\ resampled = <<>>
    /\ mono = <<>>
    /\ abandoned = FALSE

Next ==
    \E t \in Threads :
        \/ \E o \in Ops : Call(t, o)
        \/ \E mkOk \in BOOLEAN : get_models_dir(t, mkOk)
        \/ is_whisper_model_downloaded(t)
        \/ get_whisper_model_path(t)
        \/ download_whisper_model(t)
        \/ load_whisper_model(t)
        \/ is_whisper_loaded(t)
        \/ \E so \in StateOutcomes, io \in InferOutcomes, go \in SegmentOutcomes :
               transcribe_audio_native(t, so, io, go)
        \/ \E opened \in BOOLEAN : transcribe_audio_file(t, opened)
        \/ unload_whisper_model(t)

Spec == Init /\ [][Next]_vars

----------------------------------------------------------------------------
(* Properties *)

\* Thread t takes a step.
Moved(t) == pc'[t] # pc[t]

\* The last step was the return of command o with value v.
Returned(o, v) == ret.op = o /\ ret.val = v

\* The side effects of a download that fetches, in program order.
FetchLog == <<"start", "request", "create", "write", "progress", "complete">>

IsPrefix(l, m) == Len(l) <= Len(m) /\ \A i \in 1..Len(l) : l[i] = m[i]

Elems(l) == {l[i] : i \in 1..Len(l)}

\* C1: at most one thread is inside the critical section of the WHISPER_CTX
\* mutex at a time (so no two transcriptions run inference at once), and
\* while a transcription holds the context it obtained, that context is
\* still the one stored in WHISPER_CTX: no load replaced it and no unload
\* cleared it.
C1_MutualExclusion ==
    /\ \A t1, t2 \in Threads :
           t1 # t2 => ~(InCtxSection(t1) /\ InCtxSection(t2))
    /\ \A t \in Threads :
           pc[t] \in Inferring => held[t] # None /\ WHISPER_CTX = held[t]

\* C1 witness: a transcription is running inference while a load and nothing
\* else waits for the mutex.
C1_Witness ==
    \E t1, t2 \in Threads :
        /\ pc[t1] = "tr_full"
        /\ pc[t2] = "ld_lock"
        /\ WHISPER_CTX = held[t1]

\* C2: when no handle exists, a transcription that reaches the mutex is not
\* turned away by it, returns the model-not-loaded error from the as_ref
\* check, has run no inference, and leaves WHISPER_CTX and MODEL_PATH as
\* they were.
C2_NotLoadedError ==
    [][\A t \in Threads :
          (WHISPER_CTX = None /\ pc[t] \in {"tr_lock", "tr_ctx"} /\ Moved(t)) =>
              /\ pc[t] = "tr_lock" => pc'[t] = "tr_ctx"
              /\ pc[t] = "tr_ctx" =>
                     /\ ret'.t = t
                     /\ ret'.val = "ModelNotLoaded"
                     /\ "inference" \notin Elems(ret'.log)
              /\ WHISPER_CTX' = None
              /\ MODEL_PATH' = MODEL_PATH]_vars

\* C2 witness: transcribe_audio_native has returned model-not-loaded with no
\* handle in place, the model file being on disk.
C2_Witness ==
    /\ Returned("transcribe_audio_native", "ModelNotLoaded")
    /\ WHISPER_CTX = None
    /\ file = "complete"

\* C3: while a handle is present is_whisper_loaded answers true and no
\* transcription reports model-not-loaded, and only unload_whisper_model
\* takes WHISPER_CTX from present to absent.
C3_NoSilentRegression ==
    /\ [](WHISPER_CTX # None =>
            /\ ret.op = "is_whisper_loaded" => ret.val = "true"
            /\ ret.op \in TranscribeOps => ret.val # "ModelNotLoaded")
    /\ [][(WHISPER_CTX # None /\ WHISPER_CTX' = None) =>
             \E t \in Threads : pc[t] = "un_clear" /\ Moved(t)]_vars

\* C4: a load whose file is missing or cannot be parsed returns an error, and
\* a load that returns such an error has not touched the engine state: its
\* steps up to the parse leave WHISPER_CTX and MODEL_PATH alone, and only
\* those steps return these errors.
C4_FailedLoadKeepsState ==
    [][\A t \in Threads :
          (op[t] = "load_whisper_model" /\ Moved(t)) =>
              /\ (pc[t] = "ld_exists" /\ ~Exists) =>
                     ret'.t = t /\ ret'.val = "NotDownloaded"
              /\ (pc[t] = "ld_parse" /\ file # "complete") =>
                     ret'.t = t /\ ret'.val = "ModelLoadError"
              /\ pc[t] \in {"dir", "ld_exists", "ld_parse"} =>
                     WHISPER_CTX' = WHISPER_CTX /\ MODEL_PATH' = MODEL_PATH
              /\ (ret'.t = t /\ ret'.val \in {"DirError", "NotDownloaded", "ModelLoadError"}) =>
                     /\ pc[t] \in {"dir", "ld_exists", "ld_parse"}
                     /\ WHISPER_CTX' = WHISPER_CTX /\ MODEL_PATH' = MODEL_PATH]_vars

\* C4 witness: a load has failed to parse while a handle and its path were
\* in place, and they still are.
C4_Witness ==
    /\ Returned("load_whisper_model", "ModelLoadError")
    /\ WHISPER_CTX # None
    /\ MODEL_PATH = "path"

\* C5: whenever the WHISPER_CTX mutex is not held, the handle is present
\* exactly when the stored path is.
C5_HandleIffPath ==
    ctxOwner = NoThread => (WHISPER_CTX # None <=> MODEL_PATH = "path")

\* C5 witness: a second load has replaced the handle and returned.
C5_Witness ==
    /\ Returned("load_whisper_model", "Ok")
    /\ ctxOwner = NoThread
    /\ WHISPER_CTX = 2
    /\ MODEL_PATH = "path"

\* C6 (as claimed): every return of unload_whisper_model is a success that
\* leaves no handle and no stored path.
C6_UnloadAlwaysSucceeds ==
    ret.op = "unload_whisper_model" =>
        ret.val = "Ok" /\ WHISPER_CTX = None /\ MODEL_PATH = "none"

\* C6 (amended): unload_whisper_model succeeds and leaves no handle and no
\* stored path whenever the WHISPER_CTX mutex is not poisoned; run on an
\* engine that is already unloaded it changes nothing and succeeds; on a
\* poisoned mutex it returns the lock-poisoned error and changes nothing.
C6_UnloadIdempotent ==
    /\ [](ret.op = "unload_whisper_model" =>
            IF ctxPoisoned
            THEN ret.val = "LockPoisoned"
            ELSE ret.val = "Ok" /\ WHISPER_CTX = None /\ MODEL_PATH = "none")
    /\ [][\A t \in Threads :
             (op[t] = "unload_whisper_model" /\ Moved(t)) =>
                 /\ (WHISPER_CTX = None /\ MODEL_PATH = "none") =>
                        /\ WHISPER_CTX' = None /\ MODEL_PATH' = "none"
                        /\ ret'.t = t => ret'.val = "Ok"
                 /\ ctxPoisoned =>
                        /\ WHISPER_CTX' = WHISPER_CTX /\ MODEL_PATH' = MODEL_PATH
                        /\ ret'.t = t /\ ret'.val = "LockPoisoned"]_vars

\* C6 witness: an unload of an engine with nothing loaded is about to clear
\* the (already absent) stored path.
C6_Witness ==
    \E t \in Threads :
        /\ pc[t] = "un_pclear"
        /\ MODEL_PATH = "none"
        /\ file = "complete"

\* The scenario of C7: the model file is on disk (thread 1 has downloaded
\* it), no unload is called and the calls into the whisper library made by
\* a transcription succeed.  Loads, transcriptions and is_whisper_loaded
\* queries run concurrently.
InitLive ==
    /\ WHISPER_CTX = None
    /\ MODEL_PATH = "none"
    /\ ctxOwner = NoThread
    /\ ctxPoisoned = FALSE
    /\ pathOwner = NoThread
    /\ pathPoisoned = FALSE
    /\ file = "complete"
    /\ dirExists = TRUE
    /\ op = [t \in Threads |-> "none"]
    /\ pc = [t \in Threads |-> "idle"]
    /\ held = [t \in Threads |-> None]
    /\ log = [t \in Threads |-> <<>>]
    /\ ret = [t |-> 1, op |-> "download_whisper_model", val |-> "OkPath",
              log |-> FetchLog]
    /\ wav = NoWav
    /\ stage = "none"
    /\ norm = <<>>
    /\ resampled = <<>>
    /\ mono = <<>>
    /\ abandoned = FALSE

LiveOps == {"load_whisper_model", "is_whisper_loaded",
            "transcribe_audio_native", "transcribe_audio_file"}

LiveStep(t) ==
    \/ get_models_dir(t, TRUE)
    \/ load_whisper_model(t)
    \/ is_whisper_loaded(t)
    \/ transcribe_audio_native(t, "ok", "ok", "ok")
    \/ transcribe_audio_file(t, TRUE)

NextLive ==
    \E t \in Threads :
        \/ \E o \in LiveOps : Call(t, o)
        \/ LiveStep(t)

\* A running command keeps running (no cancellation, every step terminates),
\* and a thread waiting in transcribe for the mutex gets it if it is free
\* again and again (fair lock scheduling).
Fairness ==
    \A t \in Threads : WF_vars(LiveStep(t)) /\ SF_vars(transcribe_lock(t))

SpecLive == InitLive /\ [][NextLive]_vars /\ Fairness

TranscribeSection == {"tr_ctx", "tr_state", "tr_full", "tr_segs"}

\* C7: with a handle loaded and no unload, two transcriptions that wait for
\* the mutex at the same time are serialised (while one is inside its
\* critical section the other is not), every transcription that returns
\* while the handle is present returns success, and each of the two
\* eventually returns success.
C7_BothComplete ==
    /\ [](\A t1, t2 \in Threads :
            (t1 # t2 /\ pc[t1] \in TranscribeSection) =>
                pc[t2] \notin TranscribeSection)
    /\ []((ret.op \in TranscribeOps /\ WHISPER_CTX # None) => ret.val = "Ok")
    /\ \A t1, t2 \in Threads :
           (t1 # t2 /\ pc[t1] = "tr_lock" /\ pc[t2] = "tr_lock" /\ WHISPER_CTX # None)
               ~> (ret.t = t1 /\ ret.op \in TranscribeOps /\ ret.val = "Ok")

\* C7 witness: one transcription is running inference on the loaded handle
\* while the other waits for the mutex.
C7_Witness ==
    \E t1, t2 \in Threads :
        /\ pc[t1] = "tr_full"
        /\ pc[t2] = "tr_lock"
        /\ op[t1] = "transcribe_audio_native"
        /\ op[t2] = "transcribe_audio_native"

\* C8: once the WHISPER_CTX mutex is poisoned, every command that locks it
\* (load, transcribe, unload, is_whisper_loaded) returns the lock-poisoned
\* error from its lock() call.
C8_PoisonSurfaced ==
    [][\A t \in Threads :
          (ctxPoisoned /\ pc[t] \in {"ld_lock", "tr_lock", "un_lock", "il_lock"}
                       /\ Moved(t)) =>
              ret'.t = t /\ ret'.val = "LockPoisoned"]_vars

\* C9: a download that finds the model file in place returns its path at
\* once: get_models_dir does not fail, the call returns OkPath from the
\* exists() check with an empty effect log (no event, no request, no file
\* creation or write), and the disk is as it was.
C9_NoRefetch ==
    [][\A t \in Threads :
          (op[t] = "download_whisper_model" /\ Exists /\ Moved(t)
              /\ pc[t] \in {"dir", "dl_exists"}) =>
              /\ pc[t] = "dir" => pc'[t] = "dl_exists"
              /\ pc[t] = "dl_exists" =>
                     ret' = [t |-> t, op |-> "download_whisper_model",
                             val |-> "OkPath", log |-> <<>>]
              /\ file' = file
              /\ dirExists' = dirExists]_vars

\* C9 witness: a download has returned the path of a complete file without
\* any effect.
C9_Witness ==
    /\ Returned("download_whisper_model", "OkPath")
    /\ ret.log = <<>>
    /\ file = "complete"

\* C10: the effects of a download happen in the order start, request,
\* create, write, progress, complete; a download that fetched and returned
\* success performed all of them, and a failed download emitted no
\* complete event.
C10_EventOrder ==
    /\ \A t \in Threads :
           op[t] = "download_whisper_model" => IsPrefix(log[t], FetchLog)
    /\ ret.op = "download_whisper_model" =>
           /\ IsPrefix(ret.log, FetchLog)
           /\ ret.val = "OkPath" => ret.log \in {<<>>, FetchLog}
           /\ ret.val # "OkPath" => "complete" \notin Elems(ret.log)

\* C10 witness: a download has fetched, emitted its three events and
\* returned success.
C10_Witness ==
    /\ Returned("download_whisper_model", "OkPath")
    /\ ret.log = FetchLog

\* Number of occurrences of e in l.
Count(l, e) == Cardinality({i \in 1..Len(l) : l[i] = e})

\* The steps of a download at which a `?` can return the error.
DownloadFailPoints == {<<"start">>, <<"start", "request">>,
                       <<"start", "request", "create">>}

\* C11: a failed download returns the download error as a value from the
\* step that failed (after the start event alone when the request failed,
\* after the request when File::create failed, after the creation when the
\* body read or the write failed), no call makes a second request, and a
\* file the call created is still on disk when it returns.
C11_FailedDownload ==
    /\ \A t \in Threads : Count(log[t], "request") <= 1
    /\ ret.op = "download_whisper_model" =>
           /\ Count(ret.log, "request") <= 1
           /\ ret.val \in {"OkPath", "DownloadError", "DirError"}
           /\ ret.val = "DownloadError" =>
                  /\ ret.log \in DownloadFailPoints
                  /\ "create" \in Elems(ret.log) => Exists

\* C11 witness: a download has failed after File::create and the file it
\* left behind is on disk, not complete.
C11_Witness ==
    /\ Returned("download_whisper_model", "DownloadError")
    /\ "create" \in Elems(ret.log)
    /\ file \in {"empty", "partial"}

\* C12: with two downloads running at the same time, a download that
\* returns the path as a success does so only when the file holds the
\* complete model.
C12_ConcurrentDownloads ==
    (/\ Returned("download_whisper_model", "OkPath")
     /\ \E t \in Threads : t # ret.t /\ op[t] = "download_whisper_model")
        => file = "complete"

\* The steps thread t can take as a download.
DownloadStep(t) ==
    \/ \E mkOk \in BOOLEAN : get_models_dir(t, mkOk)
    \/ download_whisper_model(t)

\* C13: a download holds neither mutex at any point, can always take its
\* next step whatever the state of the mutexes (so a running transcription
\* never blocks it), and none of its steps changes WHISPER_CTX, MODEL_PATH
\* or either mutex (so it never blocks a transcription).
C13_DownloadLockFree ==
    /\ [](\A t \in Threads :
            op[t] = "download_whisper_model" =>
                /\ ctxOwner # t
                /\ pathOwner # t
                /\ ENABLED DownloadStep(t))
    /\ [][\A t \in Threads :
             (op[t] = "download_whisper_model" /\ Moved(t)) =>
                 UNCHANGED engine]_vars

\* C13 witness: a download is waiting for the response body while a
\* transcription runs inference under the WHISPER_CTX mutex.
C13_Witness ==
    \E t1, t2 \in Threads :
        /\ pc[t1] = "dl_body"
        /\ pc[t2] = "tr_full"
        /\ ctxOwner = t2


\* ---------------------------------------------------------------------------
\* transcribe_audio_file: the conversion of a WAV file to the sample buffer
\* handed to transcribe_audio_native (whisper.rs:169-215).
\*
\* A sample is the dyadic rational num / 2^exp, kept in lowest terms.  Every
\* value the conversion produces from 16-bit input, and from the 32-bit input
\* used here, is exactly representable in f32, so the f32 sums and halvings of
\* the code are exact.
\* ---------------------------------------------------------------------------

MaxSamples == 4
ScenarioLen == 1600

TargetRate == 16000
SampleRates == {0, 8000, 16000, 32000, 44100, 48000}
SampleBits == {16, 32}
ChannelCounts == {1, 2}
SampleValues == {1, -2}

Zero == [num |-> 0, exp |-> 0]

RECURSIVE Pow2(_)
Pow2(k) == IF k = 0 THEN 1 ELSE 2 * Pow2(k - 1)

RECURSIVE Reduce(_)
Reduce(x) ==
    IF x.num = 0 THEN Zero
    ELSE IF x.exp > 0 /\ x.num % 2 = 0
         THEN Reduce([num |-> x.num \div 2, exp |-> x.exp - 1])
         ELSE x

Add(a, b) ==
    IF a.num = 0 THEN b
    ELSE IF b.num = 0 THEN a
    ELSE LET e == IF a.exp > b.exp THEN a.exp ELSE b.exp
         IN Reduce([num |-> a.num * Pow2(e - a.exp) + b.num * Pow2(e - b.exp),
                    exp |-> e])

Half(x) == Reduce([num |-> x.num, exp |-> x.exp + 1])

\* s as f32 / 32768.0 for 16-bit samples, s as f32 / 2147483648.0 otherwise.
Normalize(v, bits) ==
    Reduce([num |-> v, exp |-> IF bits = 16 THEN 15 ELSE 31])

\* reader.samples().filter_map(|s| s.ok()).map(...).collect()
Decode(data, bits) ==
    LET readable == SelectSeq(data, LAMBDA s : s.ok)
    IN [i \in 1..Len(readable) |-> Normalize(readable[i].v, bits)]

\* (samples.len() as f32 * ratio) as usize: the cast truncates.
ResampleLen(len, rate) == (len * TargetRate) \div rate

\* (i as f32 / ratio) as usize, for the 0-based output index i.
SrcIdx(i, rate) == (i * rate) \div TargetRate

\* A sample rate of 0 makes ratio infinite: with at least one sample new_len
\* saturates to usize::MAX and Vec::with_capacity panics; with no sample the
\* product is NaN and new_len is 0.
CapacityOverflow(samples, rate) == rate = 0 /\ Len(samples) > 0

Resample(samples, rate) ==
    IF rate = TargetRate THEN samples
    ELSE IF rate = 0 THEN <<>>
    ELSE LET new_len == ResampleLen(Len(samples), rate)
             kept == SelectSeq([i \in 1..new_len |-> i - 1],
                               LAMBDA i : SrcIdx(i, rate) < Len(samples))
         IN [k \in 1..Len(kept) |-> samples[SrcIdx(kept[k], rate) + 1]]

\* samples.chunks(2), each chunk folded as
\* (chunk[0] + chunk.get(1).unwrap_or(&0.0)) / 2.0
Chunks(s) ==
    [k \in 1..((Len(s) + 1) \div 2) |->
        SubSeq(s, 2 * k - 1, IF 2 * k <= Len(s) THEN 2 * k ELSE Len(s))]

\* Variant: chunks_exact(2), which leaves a trailing unpaired sample out.
FoldExact(samples, channels) ==
    IF channels = 2
    THEN LET c == SelectSeq(Chunks(samples), LAMBDA chunk : Len(chunk) = 2)
         IN [k \in 1..Len(c) |-> Half(Add(c[k][1], c[k][2]))]
    ELSE samples

Fold(samples, channels) ==
    IF channels = 2
    THEN LET c == Chunks(samples)
         IN [k \in 1..Len(c) |->
                Half(Add(c[k][1], IF Len(c[k]) > 1 THEN c[k][2] ELSE Zero))]
    ELSE samples

\* The data chunk of a file: readable samples, then (for a truncated file) a
\* tail of samples whose read fails.
Readable(n) == [1..n -> {[ok |-> TRUE, v |-> v] : v \in SampleValues}]
Unreadable(n) == [i \in 1..n |-> [ok |-> FALSE, v |-> 0]]
DataChunks ==
    UNION {{good \o Unreadable(b) : good \in Readable(g)} :
           g \in 0..MaxSamples, b \in 0..MaxSamples} 

WavFiles ==
    {[container |-> "wav", rate |-> r, bits |-> b, channels |-> c, data |-> d] :
        r \in SampleRates, b \in SampleBits, c \in ChannelCounts,
        d \in {x \in DataChunks : Len(x) <= MaxSamples}}

\* 0.1 s of 8000 Hz 16-bit stereo: ScenarioLen interleaved samples.
ScenarioWav ==
    [container |-> "wav", rate |-> 8000, bits |-> 16, channels |-> 2,
     data |-> [i \in 1..ScenarioLen |->
                  [ok |-> TRUE, v |-> IF i % 2 = 1 THEN 1 ELSE -2]]]

BadFiles == {[NoWav EXCEPT !.container = c] : c \in {"missing", "invalid"}}

AudioStep(s) ==
    /\ stage' = s
    /\ wav' = wav
    /\ ret' = NoRet
    /\ UNCHANGED <<engine, disk, op, pc, held, log, abandoned>>

\* hound::WavReader::open
wav_open ==
    /\ stage = "file"
    /\ AudioStep(IF wav.container = "wav" THEN "opened" ELSE "decode_error")
    /\ UNCHANGED <<norm, resampled, mono>>

wav_decode ==
    /\ stage = "opened"
    /\ norm' = Decode(wav.data, wav.bits)
    /\ AudioStep("decoded")
    /\ UNCHANGED <<resampled, mono>>

\* Variant: the buffer is taken over at its original rate.
audio_resample_mirror ==
    /\ stage = "decoded"
    /\ IF CapacityOverflow(norm, wav.rate)
       THEN AudioStep("panic") /\ resampled' = resampled
       ELSE AudioStep("resampled") /\ resampled' = norm
    /\ UNCHANGED <<norm, mono>>

audio_resample ==
    /\ stage = "decoded"
    /\ IF CapacityOverflow(norm, wav.rate)
       THEN AudioStep("panic") /\ resampled' = resampled
       ELSE AudioStep("resampled") /\ resampled' = Resample(norm, wav.rate)
    /\ UNCHANGED <<norm, mono>>

\* Variant: the channels are folded on the buffer as decoded.
audio_fold_first ==
    /\ stage = "resampled"
    /\ mono' = Fold(norm, wav.channels)
    /\ AudioStep("folded")
    /\ UNCHANGED <<norm, resampled>>

audio_fold ==
    /\ stage = "resampled"
    /\ mono' = Fold(resampled, wav.channels)
    /\ AudioStep("folded")
    /\ UNCHANGED <<norm, resampled>>

\* transcribe_audio_native(samples)
audio_handoff ==
    /\ stage = "folded"
    /\ AudioStep("handed")
    /\ UNCHANGED <<norm, resampled, mono>>

InitAudio ==
    /\ WHISPER_CTX = None
    /\ MODEL_PATH = "none"
    /\ ctxOwner = NoThread
    /\ ctxPoisoned = FALSE
    /\ pathOwner = NoThread
    /\ pathPoisoned = FALSE
    /\ file = "absent"
    /\ dirExists = FALSE
    /\ op = [t \in Threads |-> "none"]
    /\ pc = [t \in Threads |-> "idle"]
    /\ held = [t \in Threads |-> None]
    /\ log = [t \in Threads |-> <<>>]
    /\ ret = NoRet
    /\ wav \in WavFiles \cup BadFiles \cup {ScenarioWav}
    /\ stage = "file"
    /\ norm = <<>>
    /\ resampled = <<>>
    /\ mono = <<>>
    /\ abandoned = FALSE

NextAudio ==
    \/ wav_open
    \/ wav_decode
    \/ audio_resample
    \/ audio_fold
    \/ audio_handoff

SpecAudio == InitAudio /\ [][NextAudio]_vars


Converted == {"resampled", "folded", "handed"}
Folded == {"folded", "handed"}

\* round(a / b) for a >= 0, b > 0
Round(a, b) == (2 * a + b) \div (2 * b)

\* C14: for every buffer length and every sample rate other than 16000 the
\* resampling yields exactly round(len * 16000 / sr) samples, output sample i
\* being the source sample at index floor(i * sr / 16000), dropped only when
\* that index is past the end of the source.
C14_ResampleContract ==
    (stage \in Converted /\ wav.rate \notin {0, TargetRate}) =>
        LET len == Len(norm)
            n == Round(len * TargetRate, wav.rate)
            inRange == SelectSeq([i \in 1..n |-> i - 1],
                                 LAMBDA i : (i * wav.rate) \div TargetRate < len)
        IN /\ Len(resampled) = n
           /\ resampled = [k \in 1..Len(inRange) |->
                              norm[(inRange[k] * wav.rate) \div TargetRate + 1]]

\* C15: folding a two-channel buffer s of m interleaved samples yields
\* ceil(m / 2) samples, output k being (s[2k] + s[2k+1]) / 2 (0-based) and,
\* for odd m, the last output (s[m-1] + 0.0) / 2; a one-channel buffer passes
\* through unchanged.
C15_ChannelFold ==
    stage \in Folded =>
        LET s == resampled
            m == Len(s)
        IN IF wav.channels = 2
           THEN /\ Len(mono) = (m + 1) \div 2
                /\ \A k \in 1..Len(mono) :
                      mono[k] = IF 2 * k <= m
                                THEN Half(Add(s[2 * k - 1], s[2 * k]))
                                ELSE Half(s[m])
           ELSE mono = s

C15_Witness ==
    /\ stage = "folded"
    /\ wav.channels = 2
    /\ Len(resampled) = 3
    /\ Len(mono) = 2
    /\ mono[2] = Half(resampled[3])
    /\ mono[2] # Zero

\* C16 (as stated): the 8000 Hz 16-bit stereo file of 1600 interleaved
\* samples hands exactly 800 mono samples to the transcription call.
C16_HandsOnePerFrame ==
    (wav = ScenarioWav /\ stage = "handed") => Len(mono) = ScenarioLen \div 2

\* C16 (amended): that file hands as many mono samples to the transcription
\* call as it has interleaved samples, 1600.
C16_HandsOnePerSample ==
    (wav = ScenarioWav /\ stage = "handed") => Len(mono) = ScenarioLen

C16_Witness ==
    /\ wav = ScenarioWav
    /\ stage = "handed"
    /\ Len(norm) = ScenarioLen
    /\ Len(resampled) = 2 * ScenarioLen
    /\ Len(mono) = ScenarioLen

\* C17: normalization, resampling and folding never fail: every decoded
\* buffer is converted to an output buffer.
C17_PreprocessingNeverFails == stage # "panic"

\* C18: a missing file, an invalid container or an unreadable sample makes the
\* call return an audio-decode error without any transcription; a file with
\* an unreadable sample is never transcribed from its readable samples.
C18_DecodeFailureSurfaces ==
    /\ wav.container \in {"missing", "invalid"} => stage \in {"file", "decode_error"}
    /\ (\E i \in 1..Len(wav.data) : ~wav.data[i].ok) => stage # "handed"

\* C19: the steps run in the order normalization, resampling of the flat
\* interleaved array, folding: for a two-channel file not at 16000 Hz mono
\* output k is (r[2k] + r[2k+1]) / 2 (0-based) over the resampled array r of
\* the normalized samples, and for an 8000 Hz two-channel file the output is
\* the interleaved input sequence itself.
C19_ResampleThenFold ==
    (stage \in Folded /\ wav.channels = 2 /\ wav.rate \notin {0, TargetRate}) =>
        LET n == Decode(wav.data, wav.bits)
            rlen == (Len(n) * TargetRate) \div wav.rate
            r(i) == n[(i * wav.rate) \div TargetRate + 1]
        IN /\ norm = n
           /\ Len(mono) = (rlen + 1) \div 2
           /\ \A k \in 0..(Len(mono) - 1) :
                 mono[k + 1] = Half(Add(r(2 * k),
                                        IF 2 * k + 1 < rlen THEN r(2 * k + 1) ELSE Zero))
           /\ wav.rate = 8000 => mono = n

C19_Witness ==
    /\ stage = "folded"
    /\ wav.channels = 2
    /\ wav.rate = 8000
    /\ Len(norm) = 2
    /\ norm[1] # norm[2]
    /\ mono = norm
    /\ mono[1] # Half(Add(norm[1], norm[2]))


\* The steps a running command of worker t can take.
Step(t) ==
    \/ \E mkOk \in BOOLEAN : get_models_dir(t, mkOk)
    \/ is_whisper_model_downloaded(t)
    \/ get_whisper_model_path(t)
    \/ download_whisper_model(t)
    \/ load_whisper_model(t)
    \/ is_whisper_loaded(t)
    \/ \E so \in StateOutcomes, io \in InferOutcomes, go \in SegmentOutcomes :
           transcribe_audio_native(t, so, io, go)
    \/ \E opened \in BOOLEAN : transcribe_audio_file(t, opened)
    \/ unload_whisper_model(t)

PathSection == {"ld_pset", "un_pclear"}

\* C20: the path lock is only ever held inside the handle lock, and only by
\* load and unload; a worker whose command has returned holds no lock; and
\* whenever some command is running, some running command can take a step.
C20_DeadlockFree ==
    /\ \A t \in Threads :
          /\ pathOwner = t => ctxOwner = t
          /\ pathOwner = t <=> pc[t] \in PathSection
          /\ pathOwner = t => op[t] \in {"load_whisper_model", "unload_whisper_model"}
          /\ ctxOwner = t => op[t] \in {"load_whisper_model", "unload_whisper_model",
                                        "transcribe_audio_native", "transcribe_audio_file"}
          /\ pc[t] = "idle" => (ctxOwner # t /\ pathOwner # t)
    /\ (\E t \in Threads : pc[t] # "idle") =>
           \E t \in Threads : pc[t] # "idle" /\ ENABLED Step(t)

C20_Witness ==
    \E t1, t2 \in Threads :
        /\ pc[t1] = "ld_pset" /\ ctxOwner = t1 /\ pathOwner = t1
        /\ pc[t2] = "un_lock"
        /\ ~ENABLED Step(t2)


\* A download is fetching from its "start" event until write_all has returned.
Fetching == {"dl_start", "dl_send", "dl_create", "dl_body", "dl_write"}
Quiescent == \A t \in Threads : pc[t] \notin Fetching
Incomplete == {"empty", "partial"}

\* C21 (as stated): once a download has failed after creating the file, the
\* complete model is never written.
C21_NeverCompleted ==
    [][(abandoned /\ file \in Incomplete) => file' # "complete"]_vars

\* C21 (amended): once the file exists, a download that checks for it returns
\* its path as success without any effect and is_whisper_model_downloaded
\* returns true, whether the file is complete or not; and once no download
\* that had passed its check earlier is still fetching, the file is never
\* changed again and no fetch is started.
C21_NoLaterFetch ==
    [][/\ \A t \in Threads :
             /\ (op[t] = "download_whisper_model" /\ pc[t] = "dl_exists"
                    /\ Exists /\ Moved(t)) =>
                    /\ ret' = [t |-> t, op |-> "download_whisper_model",
                               val |-> "OkPath", log |-> <<>>]
                    /\ file' = file
             /\ (pc[t] = "md_exists" /\ Exists /\ Moved(t)) =>
                    /\ ret'.op = "is_whisper_model_downloaded"
                    /\ ret'.val = "true"
       /\ (Exists /\ Quiescent) => (file' = file /\ Quiescent')]_vars

\* C21 witness: after a download failed behind File::create, a later download
\* has returned the path of the incomplete file without fetching.
C21_Witness ==
    /\ abandoned
    /\ file \in Incomplete
    /\ Quiescent
    /\ Returned("download_whisper_model", "OkPath")
    /\ ret.log = <<>>

\* C22: is_whisper_model_downloaded returns true, and load_whisper_model
\* passes its exists() check, only when the complete model file has been
\* written.
C22_OnlyCompleteObserved ==
    [][\A t \in Threads :
          /\ (pc[t] = "md_exists" /\ Moved(t) /\ ret'.val = "true") => file = "complete"
          /\ (pc[t] = "ld_exists" /\ pc'[t] = "ld_parse") => file = "complete"]_vars

====
